---- MODULE Spec2Model ----
(***************************************************************************)
(* Model of the background job system: the SQLite-backed task store        *)
(* (src/src/store/sqlite_task_store.rs), the worker loop                   *)
(* (src/src/worker.rs) and the pool supervisor                             *)
(* (src/src/asynk/async_worker_pool.rs).                                   *)
(*                                                                         *)
(* A row of the `tasks` table carries the columns the store's SQL reads    *)
(* and writes.  They persist the fields of the Task struct                 *)
(* (src/src/sqlite_task.rs) as follows:                                    *)
(*   name                 task_name                                        *)
(*   state                pending / running / done / failed                *)
(*   last_execution_date  running_at                                       *)
(*   completed_at         done_at of a successful record                   *)
(*   failed_at            done_at of a failed record                       *)
(*   error                error_info of a finally failed record            *)
(*   last_error           error_info recorded by a retry-scheduling        *)
(*   retry_count          retries                                          *)
(*   next_retry_date      scheduled_at                                     *)
(* Time is counted in whole seconds (DATETIME('now'), Duration::as_secs).  *)
(* Sleep durations are abstracted: a worker that sleeps is back at the top  *)
(* of its loop when the step ends.                                         *)
(***************************************************************************)
EXTENDS Integers, FiniteSets, Sequences, TLC

\* ---------------------------------------------------------------- bounds
MaxTasks == 2
MaxTime == 1
MaxFaults == 1
MaxCalls == 4
MaxAttempt == 66

\* ------------------------------------------------------------- constants
NULL == -1
NoError == "none"
Workers == {1, 2}
Messages == {"number is wrong", "Failed"}
Payloads == {0}
U64Bits == 64
I32Max == 2147483647
BackoffModes == {"NoBackoff", "ExponentialBackoff"}

\* Registered task types (worker.rs tests: AsyncFailedTask has
\* max_retries 0, AsyncRetryTask has max_retries 2).
TaskNames == {"AsyncFailedTask", "AsyncRetryTask"}

\* Task types with a task_type of their own (worker.rs tests: AsyncTaskType1
\* is of "type1", AsyncTaskType2 of "type2"); their runners return Ok(()).
TypedTaskNames == {"AsyncTaskType1", "AsyncTaskType2"}

max_retries(name) ==
    IF name = "AsyncFailedTask" THEN 0 ELSE 2

\* Neither type overrides the backoff mode: Default for BackoffMode.
backoff_mode(name) == "ExponentialBackoff"

\* The description of the error the type's runner returns when it fails.
description(name) ==
    IF name = "AsyncFailedTask" THEN "number is wrong" ELSE "Failed"

\* What a runner of the type may return: Ok(()) or Err(description).
Outcomes(name) ==
    IF name \in TypedTaskNames THEN {"ok"} ELSE {"ok", description(name)}

\* The queue a type is enqueued on; the default is DEFAULT_TASK_TYPE.
QueueOf(name) ==
    IF name = "AsyncTaskType1" THEN "type1"
    ELSE IF name = "AsyncTaskType2" THEN "type2"
    ELSE "default"

\* A worker built with task_type("type1").
TypedWorkers == {3}

\* Every worker of the pool is built from the same parameters; the typed
\* worker is bound to "type1".
WorkerQueue(w) == IF w \in TypedWorkers THEN "type1" ELSE "default"

WorkerTaskNames(w) == IF w \in TypedWorkers THEN TypedTaskNames ELSE TaskNames

RetentionModes == {"KeepAll", "RemoveAll", "RemoveDone"}

VARIABLES
    tasks,      \* the `tasks` table: id -> row
    nextId,     \* ids handed out so far + 1 (ids are never reused)
    now,        \* the wall clock, in seconds
    retention_mode, \* the pool's retention mode
    pc,         \* per worker: position in run_tasks
    sel,        \* per worker: the Task read by the SELECT of pull_next_task
    stale,      \* per worker: another write committed since the SELECT
    faults,     \* store errors injected so far
    result,     \* per worker: what the runner of the current attempt returned
    shutdown,   \* the application has signalled shutdown
    attempts,   \* history: id -> number of attempts started
    settles,    \* history: id -> number of settling store calls applied by workers
    failures,   \* history: id -> number of those that settled a failed attempt
    hashes,     \* history: id -> the uniq_hash of the task the record was enqueued for
    calls,      \* history: store calls made by a direct caller of the store
    call        \* history: the last direct call, its arguments and what it returned

vars == <<tasks, nextId, now, retention_mode, shutdown, pc, sel, stale, result, faults, attempts, settles, failures, hashes, calls, call>>

NoCall == [op |-> "none", args |-> << >>]

NoTask == [id |-> 0, name |-> "none", retry_count |-> 0]

\* The fields of a fetched row that the worker reads: task.id, the runnable
\* type it deserializes to, task.retries.
AsTask(row) == [id |-> row.id, name |-> row.name, retry_count |-> row.retry_count]

\* ------------------------------------------------------- pure functions

RECURSIVE Pow2(_)
Pow2(n) == IF n = 0 THEN 1 ELSE 2 * Pow2(n - 1)

\* A u64 is held as the set of the positions of its one bits: 2^k is {k},
\* zero is {}, u64::MAX has every bit set.
U64Zero == {}

U64Max == 0 .. (U64Bits - 1)

\* The order of u64 values: the highest bit in which they differ decides.
U64Leq(a, b) ==
    \/ a = b
    \/ \E k \in b \ a : \A j \in (a \ b) : j < k

\* Duration::as_secs, as a number.
RECURSIVE as_secs(_)
as_secs(d) ==
    IF d = {} THEN 0
    ELSE LET k == CHOOSE x \in d : TRUE IN Pow2(k) + as_secs(d \ {k})

\* i32::saturating_add(1)
saturating_add_1(attempt) == IF attempt = I32Max THEN I32Max ELSE attempt + 1

\* u64::wrapping_pow: the bits of 2^e that fall outside the word are lost.
SaturatingPow2_wrapping(e) == IF e >= U64Bits THEN U64Zero ELSE {e}

\* 2u64.saturating_pow(e): 2^e has the single bit e; when that bit is
\* outside the word the result is u64::MAX.
SaturatingPow2(e) == IF e >= U64Bits THEN U64Max ELSE {e}

\* next_attempt with the exponent off by one: 2^attempt.
next_attempt_exponent_off_by_one(mode, attempt) ==
    IF mode = "NoBackoff" THEN U64Zero ELSE SaturatingPow2(attempt)

\* BackoffMode::next_attempt, for attempt >= 0 (retries is never negative,
\* so the cast `as u32` keeps the value).
next_attempt(mode, attempt) ==
    IF mode = "NoBackoff" THEN U64Zero ELSE SaturatingPow2(saturating_add_1(attempt))

\* Task::state that looks at running_at before done_at.
state_running_first(done_at, error_info, running_at) ==
    IF running_at # NULL THEN "Running"
    ELSE IF done_at # NULL /\ error_info # NoError THEN "Failed"
    ELSE IF done_at # NULL THEN "Done"
    ELSE "Ready"

\* Task::state
state(done_at, error_info, running_at) ==
    IF done_at # NULL /\ error_info # NoError THEN "Failed"
    ELSE IF done_at # NULL THEN "Done"
    ELSE IF running_at # NULL THEN "Running"
    ELSE "Ready"

Terminal(row) == row.state \in {"done", "failed"}

\* ------------------------------------------------------------ the store

\* Workers whose open transaction read the table before this write.
Invalidate(w) ==
    [v \in DOMAIN pc |-> IF v # w /\ pc[v] = "selected" THEN TRUE ELSE stale[v]]

\* The WHERE clause without the condition on queue_name.
Eligible_any_queue(queue_name, execution_timeout, task_names) ==
    {i \in DOMAIN tasks :
        /\ tasks[i].state = "pending"
        /\ tasks[i].name \in task_names
        /\ \/ execution_timeout = NULL
           \/ tasks[i].last_execution_date = NULL
           \/ tasks[i].last_execution_date + execution_timeout <= now}

\* WHERE clause of pull_next_task's SELECT.
Eligible(queue_name, execution_timeout, task_names) ==
    {i \in DOMAIN tasks :
        /\ tasks[i].queue_name = queue_name
        /\ tasks[i].state = "pending"
        /\ tasks[i].name \in task_names
        /\ \/ execution_timeout = NULL
           \/ tasks[i].last_execution_date = NULL
           \/ tasks[i].last_execution_date + execution_timeout <= now}

\* ORDER BY priority DESC, created_at ASC LIMIT 1: the rows that may come
\* first (SQL leaves the order among equal keys open).
First(E) ==
    {i \in E : \A j \in E :
        \/ tasks[i].priority > tasks[j].priority
        \/ /\ tasks[i].priority = tasks[j].priority
           /\ tasks[i].created_at <= tasks[j].created_at}

\* UPDATE tasks SET state = 'running', last_execution_date = now WHERE id = ?
set_running(t, id) ==
    IF id \in DOMAIN t
    THEN [t EXCEPT ![id].state = "running", ![id].last_execution_date = now]
    ELSE t

\* set_task_state that also writes the state for Running.
set_task_state_writes_running(t, id, st, msg) ==
    IF id \notin DOMAIN t THEN t
    ELSE IF st = "Done"
    THEN [t EXCEPT ![id].state = "done", ![id].completed_at = now]
    ELSE IF st = "Failed"
    THEN [t EXCEPT ![id].state = "failed", ![id].error = msg, ![id].failed_at = now]
    ELSE IF st = "Running"
    THEN [t EXCEPT ![id].state = "running"]
    ELSE t

\* set_task_state that counts the failure in retry_count.
set_task_state_counts_failure(t, id, st, msg) ==
    IF id \notin DOMAIN t THEN t
    ELSE IF st = "Done"
    THEN [t EXCEPT ![id].state = "done", ![id].completed_at = now]
    ELSE IF st = "Failed"
    THEN [t EXCEPT ![id].state = "failed", ![id].error = msg, ![id].failed_at = now,
                   ![id].retry_count = @ + 1]
    ELSE t

\* set_task_state
set_task_state(t, id, st, msg) ==
    IF id \notin DOMAIN t THEN t
    ELSE IF st = "Done"
    THEN [t EXCEPT ![id].state = "done", ![id].completed_at = now]
    ELSE IF st = "Failed"
    THEN [t EXCEPT ![id].state = "failed", ![id].error = msg, ![id].failed_at = now]
    ELSE t

\* remove_task whose DELETE has no WHERE clause.
remove_task_without_where(t, id) == [i \in {} |-> t[i]]

\* remove_task
remove_task(t, id) == [i \in DOMAIN t \ {id} |-> t[i]]

\* remove_task: result.rows_affected() of the DELETE.
rows_affected(t, id) == Cardinality(DOMAIN t \ DOMAIN remove_task(t, id))

\* schedule_task_retry without the increment of retry_count.
schedule_task_retry_no_increment(t, id, backoff, msg) ==
    IF id \notin DOMAIN t THEN t
    ELSE [t EXCEPT ![id].state = "pending",
                   ![id].last_error = msg,
                   ![id].next_retry_date = now + as_secs(backoff)]

\* schedule_task_retry
schedule_task_retry(t, id, backoff, msg) ==
    IF id \notin DOMAIN t THEN t
    ELSE [t EXCEPT ![id].state = "pending",
                   ![id].retry_count = @ + 1,
                   ![id].last_error = msg,
                   ![id].next_retry_date = now + as_secs(backoff)]

\* The row inserted by enqueue.  The statement has four placeholders and
\* three binds (task_name, queue_name, payload): the payload lands in the
\* priority column and the payload column stays NULL.
NewRow(id, name, payload) ==
    [id |-> id, name |-> name, queue_name |-> QueueOf(name),
     priority |-> payload, payload |-> NULL,
     state |-> "pending", created_at |-> now,
     last_execution_date |-> NULL, completed_at |-> NULL, failed_at |-> NULL,
     error |-> NoError, last_error |-> NoError,
     retry_count |-> 0, next_retry_date |-> NULL]

\* --------------------------------------------------------------- actions

Init ==
    /\ tasks = << >>
    /\ nextId = 1
    /\ now = 0
    /\ retention_mode \in RetentionModes
    /\ pc = [w \in Workers \cup TypedWorkers |-> "fetch"]
    /\ sel = [w \in Workers \cup TypedWorkers |-> NoTask]
    /\ stale = [w \in Workers \cup TypedWorkers |-> FALSE]
    /\ result = [w \in Workers \cup TypedWorkers |-> "none"]
    /\ faults = 0
    /\ shutdown = FALSE
    /\ attempts = [i \in 1..MaxTasks |-> 0]
    /\ settles = [i \in 1..MaxTasks |-> 0]
    /\ failures = [i \in 1..MaxTasks |-> 0]
    /\ hashes = [i \in 1..MaxTasks |-> NULL]
    /\ calls = 0
    /\ call = NoCall

Tick ==
    /\ now < MaxTime
    /\ now' = now + 1
    /\ UNCHANGED <<tasks, nextId, retention_mode, shutdown, settles, failures, hashes, pc, sel, stale, result, faults, attempts, calls, call>>

\* SqliteTaskStore::enqueue
Enqueue ==
    /\ nextId <= MaxTasks
    /\ \E name \in TaskNames, payload \in Payloads :
          tasks' = [i \in DOMAIN tasks \cup {nextId} |->
                      IF i = nextId THEN NewRow(nextId, name, payload) ELSE tasks[i]]
    /\ nextId' = nextId + 1
    /\ stale' = Invalidate(0)
    /\ UNCHANGED <<now, retention_mode, shutdown, settles, failures, hashes, pc, sel, result, faults, attempts, calls, call>>

\* run_tasks with `?` on the result of fetch_and_touch_task: a store error
\* ends the loop.
PullSelect_error_exits(w) ==
    /\ pc[w] = "fetch"
    /\ LET E == Eligible(WorkerQueue(w), NULL, WorkerTaskNames(w)) IN
       \/ /\ E = {}
          /\ UNCHANGED <<pc, sel, stale, faults>>
       \/ /\ E # {}
          /\ \E i \in First(E) : sel' = [sel EXCEPT ![w] = AsTask(tasks[i])]
          /\ pc' = [pc EXCEPT ![w] = "selected"]
          /\ stale' = [stale EXCEPT ![w] = FALSE]
          /\ UNCHANGED faults
       \/ /\ faults < MaxFaults
          /\ faults' = faults + 1
          /\ pc' = [pc EXCEPT ![w] = "exited"]
          /\ UNCHANGED <<sel, stale>>
    /\ UNCHANGED <<tasks, nextId, now, retention_mode, shutdown, settles, failures, hashes, result, attempts, calls, call>>

\* run_tasks calls fetch_and_touch_task; pull_next_task begins a
\* transaction and runs the SELECT.  No row: Ok(None), the worker sleeps
\* and loops.  A store error: the worker logs it, sleeps and loops.
PullSelect(w) ==
    /\ pc[w] = "fetch"
    /\ LET E == Eligible(WorkerQueue(w), NULL, WorkerTaskNames(w)) IN
       \/ /\ E = {}
          /\ UNCHANGED <<pc, sel, stale, faults>>
       \/ /\ E # {}
          /\ \E i \in First(E) : sel' = [sel EXCEPT ![w] = AsTask(tasks[i])]
          /\ pc' = [pc EXCEPT ![w] = "selected"]
          /\ stale' = [stale EXCEPT ![w] = FALSE]
          /\ UNCHANGED faults
       \/ /\ faults < MaxFaults
          /\ faults' = faults + 1
          /\ UNCHANGED <<pc, sel, stale>>
    /\ UNCHANGED <<tasks, nextId, now, retention_mode, shutdown, settles, failures, hashes, result, attempts, calls, call>>

\* pull_next_task without a transaction: the UPDATE never conflicts.
UpdateConflicts_no_transaction(w) == FALSE

\* The transaction's UPDATE fails when another connection has committed a
\* write since the transaction's SELECT (SQLITE_BUSY).
UpdateConflicts(w) == stale[w]

\* pull_next_task whose UPDATE is not undone when the call fails.
PullUpdate_no_rollback(w) ==
    /\ pc[w] = "selected"
    /\ \/ /\ ~UpdateConflicts(w)
          /\ tasks' = set_running(tasks, sel[w].id)
          /\ pc' = [pc EXCEPT ![w] = "run"]
          /\ stale' = Invalidate(w)
          /\ attempts' = [attempts EXCEPT ![sel[w].id] = @ + 1]
          /\ UNCHANGED sel
       \/ /\ UpdateConflicts(w)
          /\ pc' = [pc EXCEPT ![w] = "fetch"]
          /\ sel' = [sel EXCEPT ![w] = NoTask]
          /\ stale' = [stale EXCEPT ![w] = FALSE]
          /\ tasks' = set_running(tasks, sel[w].id)
          /\ UNCHANGED attempts
    /\ UNCHANGED <<nextId, now, retention_mode, shutdown, settles, failures, hashes, result, faults, calls, call>>

\* pull_next_task: the UPDATE and the commit of the open transaction; the
\* row handed to the worker is the one the SELECT read.  On a conflict the
\* transaction is rolled back and the worker logs, sleeps and loops.
PullUpdate(w) ==
    /\ pc[w] = "selected"
    /\ \/ /\ ~UpdateConflicts(w)
          /\ tasks' = set_running(tasks, sel[w].id)
          /\ pc' = [pc EXCEPT ![w] = "run"]
          /\ stale' = Invalidate(w)
          /\ attempts' = [attempts EXCEPT ![sel[w].id] = @ + 1]
          /\ UNCHANGED sel
       \/ /\ UpdateConflicts(w)
          /\ pc' = [pc EXCEPT ![w] = "fetch"]
          /\ sel' = [sel EXCEPT ![w] = NoTask]
          /\ stale' = [stale EXCEPT ![w] = FALSE]
          /\ UNCHANGED <<tasks, attempts>>
    /\ UNCHANGED <<nextId, now, retention_mode, shutdown, settles, failures, hashes, result, faults, calls, call>>

\* AsyncWorker::run, first line: the runner returns Ok or Err(description).
Runner(w) ==
    /\ pc[w] = "run"
    /\ \E outcome \in Outcomes(sel[w].name) : result' = [result EXCEPT ![w] = outcome]
    /\ pc' = [pc EXCEPT ![w] = "settle"]
    /\ UNCHANGED <<tasks, nextId, now, retention_mode, shutdown, settles, failures, hashes, sel, stale, faults, attempts, calls, call>>

\* The branch of AsyncWorker::run with <= for <.
ShouldRetry_off_by_one(task, outcome) ==
    outcome # "ok" /\ task.retry_count <= max_retries(task.name)

\* AsyncWorker::run without the retry branch.
ShouldRetry_never(task, outcome) == FALSE

\* The branch of AsyncWorker::run: retry-schedule or finalize.
ShouldRetry(task, outcome) ==
    outcome # "ok" /\ task.retry_count < max_retries(task.name)

\* finalize_task that marks a failed attempt Finished under KeepAll.
finalize_task_failure_as_done(t, mode, task, outcome) ==
    IF mode = "KeepAll"
    THEN set_task_state(t, task.id, "Done", NoError)
    ELSE IF mode = "RemoveAll"
    THEN remove_task(t, task.id)
    ELSE IF outcome = "ok"
         THEN remove_task(t, task.id)
         ELSE set_task_state(t, task.id, "Failed", outcome)

\* finalize_task that removes a successful record under KeepAll.
finalize_task_keep_all_removes_done(t, mode, task, outcome) ==
    IF mode = "KeepAll"
    THEN IF outcome = "ok"
         THEN remove_task(t, task.id)
         ELSE set_task_state(t, task.id, "Failed", outcome)
    ELSE IF mode = "RemoveAll"
    THEN IF outcome = "ok"
         THEN remove_task(t, task.id)
         ELSE remove_task(t, task.id)
    ELSE IF outcome = "ok"
         THEN remove_task(t, task.id)
         ELSE set_task_state(t, task.id, "Failed", outcome)

\* finalize_task that keeps a failed record under RemoveAll.
finalize_task_remove_all_keeps_failed(t, mode, task, outcome) ==
    IF mode = "KeepAll"
    THEN IF outcome = "ok"
         THEN set_task_state(t, task.id, "Done", NoError)
         ELSE set_task_state(t, task.id, "Failed", outcome)
    ELSE IF mode = "RemoveAll"
    THEN IF outcome = "ok"
         THEN remove_task(t, task.id)
         ELSE set_task_state(t, task.id, "Failed", outcome)
    ELSE IF outcome = "ok"
         THEN remove_task(t, task.id)
         ELSE set_task_state(t, task.id, "Failed", outcome)

\* finalize_task that removes a failed record under RemoveFinished.
finalize_task_remove_done_removes_failed(t, mode, task, outcome) ==
    IF mode = "KeepAll"
    THEN IF outcome = "ok"
         THEN set_task_state(t, task.id, "Done", NoError)
         ELSE set_task_state(t, task.id, "Failed", outcome)
    ELSE IF mode = "RemoveAll"
    THEN IF outcome = "ok"
         THEN remove_task(t, task.id)
         ELSE remove_task(t, task.id)
    ELSE IF outcome = "ok"
         THEN remove_task(t, task.id)
         ELSE remove_task(t, task.id)

\* AsyncWorker::finalize_task: the store call made for the retention mode.
finalize_task(t, mode, task, outcome) ==
    IF mode = "KeepAll"
    THEN IF outcome = "ok"
         THEN set_task_state(t, task.id, "Done", NoError)
         ELSE set_task_state(t, task.id, "Failed", outcome)
    ELSE IF mode = "RemoveAll"
    THEN remove_task(t, task.id)
    ELSE IF outcome = "ok"
         THEN remove_task(t, task.id)
         ELSE set_task_state(t, task.id, "Failed", outcome)

\* AsyncWorker::run whose Ok arm makes no store call.
run_success_not_settled(t, mode, task, outcome) ==
    IF outcome = "ok"
    THEN t
    ELSE IF ShouldRetry(task, outcome)
    THEN schedule_task_retry(t, task.id,
             next_attempt(backoff_mode(task.name), task.retry_count), outcome)
    ELSE finalize_task(t, mode, task, outcome)

\* AsyncWorker::run, the match on the result: one store call settles the
\* attempt.
run(t, mode, task, outcome) ==
    IF ShouldRetry(task, outcome)
    THEN schedule_task_retry(t, task.id,
             next_attempt(backoff_mode(task.name), task.retry_count), outcome)
    ELSE finalize_task(t, mode, task, outcome)

\* AsyncWorker::run that settles the attempt again after the match: the
\* store call is made twice.
Settle_applies_twice(w) ==
    /\ pc[w] = "settle"
    /\ \/ /\ tasks' = run(run(tasks, retention_mode, sel[w], result[w]),
                         retention_mode, sel[w], result[w])
          /\ pc' = [pc EXCEPT ![w] = "fetch"]
          /\ stale' = Invalidate(w)
          /\ settles' = [settles EXCEPT ![sel[w].id] = @ + 2]
          /\ failures' = [failures EXCEPT ![sel[w].id] =
                             IF result[w] = "ok" THEN @ ELSE @ + 2]
          /\ UNCHANGED faults
       \/ /\ faults < MaxFaults
          /\ faults' = faults + 1
          /\ pc' = [pc EXCEPT ![w] = "exited"]
          /\ UNCHANGED <<tasks, stale, settles, failures>>
    /\ sel' = [sel EXCEPT ![w] = NoTask]
    /\ result' = [result EXCEPT ![w] = "none"]
    /\ UNCHANGED <<nextId, now, retention_mode, shutdown, hashes, attempts, calls, call>>

\* The store call of AsyncWorker::run returns: Ok, and run_tasks loops; or
\* Err, and `?` carries it out of run and of run_tasks.
Settle(w) ==
    /\ pc[w] = "settle"
    /\ \/ /\ tasks' = run(tasks, retention_mode, sel[w], result[w])
          /\ pc' = [pc EXCEPT ![w] = "fetch"]
          /\ stale' = Invalidate(w)
          /\ settles' = [settles EXCEPT ![sel[w].id] = @ + 1]
          /\ failures' = [failures EXCEPT ![sel[w].id] =
                             IF result[w] = "ok" THEN @ ELSE @ + 1]
          /\ UNCHANGED faults
       \/ /\ faults < MaxFaults
          /\ faults' = faults + 1
          /\ pc' = [pc EXCEPT ![w] = "exited"]
          /\ UNCHANGED <<tasks, stale, settles, failures>>
    /\ sel' = [sel EXCEPT ![w] = NoTask]
    /\ result' = [result EXCEPT ![w] = "none"]
    /\ UNCHANGED <<nextId, now, retention_mode, shutdown, hashes, attempts, calls, call>>

\* AsyncWorkerPool::supervise_worker: the worker loop has returned; it is
\* started again with the same parameters.
Supervise(w) ==
    /\ pc[w] = "exited"
    /\ pc' = [pc EXCEPT ![w] = "fetch"]
    /\ UNCHANGED <<tasks, nextId, now, retention_mode, shutdown, settles, failures, hashes, sel, stale, result, faults, attempts, calls, call>>

Next ==
    \/ Tick
    \/ Enqueue
    \/ \E w \in Workers : PullSelect(w)
    \/ \E w \in Workers : PullUpdate(w)
    \/ \E w \in Workers : Runner(w)
    \/ \E w \in Workers : Settle(w)
    \/ \E w \in Workers : Supervise(w)

Spec == Init /\ [][Next]_vars

\* The workers are tasks of the async runtime: a step that stays possible
\* is eventually taken.
FairSpec ==
    /\ Spec
    /\ \A w \in Workers :
          /\ WF_vars(PullSelect(w))
          /\ WF_vars(PullUpdate(w))
          /\ WF_vars(Runner(w))
          /\ WF_vars(Settle(w))
          /\ WF_vars(Supervise(w))

\* ------------------------------------------- the store called directly
\* TaskStore is a public trait: a caller may issue any store call with any
\* id, in any order.  No worker runs in this specification.

StoreIds == 1..MaxTasks

\* Arguments a caller may pass.
Queues == {"default", "other"}

Timeouts == {NULL, 0, 1}

StorePayloads == {0, 1}

\* BackgroundTask::uniq of the task enqueued: None, or its hash.
UniqHashes == {NULL, 7}

Backoffs == {next_attempt(mode, 0) : mode \in BackoffModes}

TaskStates == {"Ready", "Running", "Done", "Failed"}

\* What a call returns when it returns no Task: Ok(None), Ok(()), or the
\* error of fetch_one on an id that has no row.
NoRow == NewRow(0, "none", NULL)

\* enqueue
StoreEnqueue ==
    /\ calls < MaxCalls
    /\ nextId <= MaxTasks
    /\ \E name \in TaskNames, payload \in StorePayloads, uniq_hash \in UniqHashes :
          /\ tasks' = [i \in DOMAIN tasks \cup {nextId} |->
                        IF i = nextId THEN NewRow(nextId, name, payload) ELSE tasks[i]]
          /\ hashes' = [hashes EXCEPT ![nextId] = uniq_hash]
          /\ call' = [op |-> "enqueue", args |-> <<name, payload, uniq_hash>>, ret |-> NoRow]
    /\ nextId' = nextId + 1
    /\ calls' = calls + 1
    /\ UNCHANGED <<now, retention_mode, shutdown, settles, failures, pc, sel, stale, result, faults, attempts>>

\* pull_next_task as one call of a lone caller: the Task returned is the
\* row as the SELECT read it.
StorePull ==
    /\ calls < MaxCalls
    /\ \E queue_name \in Queues, execution_timeout \in Timeouts,
          task_names \in (SUBSET TaskNames) \ {{}} :
          LET E == Eligible(queue_name, execution_timeout, task_names)
              args == <<queue_name, execution_timeout, task_names>>
          IN  \/ /\ E = {}
                 /\ call' = [op |-> "pull_next_task", args |-> args, ret |-> NoRow]
                 /\ UNCHANGED tasks
              \/ \E i \in First(E) :
                    /\ tasks' = set_running(tasks, i)
                    /\ call' = [op |-> "pull_next_task", args |-> args, ret |-> tasks[i]]
    /\ calls' = calls + 1
    /\ UNCHANGED <<nextId, now, retention_mode, shutdown, settles, failures, hashes, pc, sel, stale, result, faults, attempts>>

StoreSetTaskState ==
    /\ calls < MaxCalls
    /\ \E id \in StoreIds, st \in TaskStates :
          LET msg == IF st = "Failed" THEN "Failed" ELSE NoError IN
          /\ tasks' = set_task_state(tasks, id, st, msg)
          /\ call' = [op |-> "set_task_state", args |-> <<id, st, msg>>, ret |-> NoRow]
    /\ calls' = calls + 1
    /\ UNCHANGED <<nextId, now, retention_mode, shutdown, settles, failures, hashes, pc, sel, stale, result, faults, attempts>>

\* schedule_task_retry: RETURNING * hands back the row as updated.
StoreScheduleTaskRetry ==
    /\ calls < MaxCalls
    /\ \E id \in StoreIds, backoff \in Backoffs :
          /\ tasks' = schedule_task_retry(tasks, id, backoff, "Failed")
          /\ call' = [op |-> "schedule_task_retry", args |-> <<id, backoff, "Failed">>,
                      ret |-> IF id \in DOMAIN tasks THEN tasks'[id] ELSE NoRow]
    /\ calls' = calls + 1
    /\ UNCHANGED <<nextId, now, retention_mode, shutdown, settles, failures, hashes, pc, sel, stale, result, faults, attempts>>

StoreRemoveTask ==
    /\ calls < MaxCalls
    /\ \E id \in StoreIds :
          /\ tasks' = remove_task(tasks, id)
          /\ call' = [op |-> "remove_task", args |-> <<id>>, ret |-> rows_affected(tasks, id)]
    /\ calls' = calls + 1
    /\ UNCHANGED <<nextId, now, retention_mode, shutdown, settles, failures, hashes, pc, sel, stale, result, faults, attempts>>

StoreNext ==
    \/ Tick
    \/ StoreEnqueue
    \/ StorePull
    \/ StoreSetTaskState
    \/ StoreScheduleTaskRetry
    \/ StoreRemoveTask

StoreSpec == Init /\ [][StoreNext]_vars

\* ------------------------------------------- a worker of one task type
\* The worker built with task_type("type1") runs alone on a table that
\* holds records of "type1" and of "type2".

TypedEnqueue ==
    /\ nextId <= MaxTasks
    /\ \E name \in TypedTaskNames, payload \in Payloads :
          tasks' = [i \in DOMAIN tasks \cup {nextId} |->
                      IF i = nextId THEN NewRow(nextId, name, payload) ELSE tasks[i]]
    /\ nextId' = nextId + 1
    /\ stale' = Invalidate(0)
    /\ UNCHANGED <<now, retention_mode, shutdown, settles, failures, hashes, pc, sel, result, faults, attempts, calls, call>>

TypedNext ==
    \/ Tick
    \/ TypedEnqueue
    \/ \E w \in TypedWorkers : PullSelect(w)
    \/ \E w \in TypedWorkers : PullUpdate(w)
    \/ \E w \in TypedWorkers : Runner(w)
    \/ \E w \in TypedWorkers : Settle(w)
    \/ \E w \in TypedWorkers : Supervise(w)

TypedSpec == Init /\ [][TypedNext]_vars

\* ------------------------------------------- attempts that go wrong
\* The workers of the pool, with the three ways an attempt can fail to
\* return: the fetched record does not deserialize, the runner panics, the
\* runner never completes.

\* run_tasks: serde_json::from_value(..).unwrap() on a record whose payload
\* or type tag does not deserialize.  The panic unwinds run_tasks,
\* run_worker and supervise_worker and ends the task tokio::spawn started;
\* nothing restarts it and no store call is made.
DeserializeFails(w) ==
    /\ pc[w] = "run"
    /\ pc' = [pc EXCEPT ![w] = "panicked in unwrap"]
    /\ UNCHANGED <<tasks, nextId, now, retention_mode, shutdown, settles, failures, hashes, sel, stale, result, faults, attempts, calls, call>>

\* AsyncWorker::run: runnable.run(..).await panics.  The future is awaited
\* in place, so the panic ends the spawned task in the same way.
RunnerPanics(w) ==
    /\ pc[w] = "run"
    /\ pc' = [pc EXCEPT ![w] = "panicked in runner"]
    /\ UNCHANGED <<tasks, nextId, now, retention_mode, shutdown, settles, failures, hashes, sel, stale, result, faults, attempts, calls, call>>

\* AsyncWorker::run: runnable.run(..).await never completes.  The await has
\* no timer around it: the worker stays there.
RunnerHangs(w) ==
    /\ pc[w] = "run"
    /\ pc' = [pc EXCEPT ![w] = "awaiting runner"]
    /\ UNCHANGED <<tasks, nextId, now, retention_mode, shutdown, settles, failures, hashes, sel, stale, result, faults, attempts, calls, call>>

HazardNext ==
    \/ Tick
    \/ Enqueue
    \/ \E w \in Workers : PullSelect(w)
    \/ \E w \in Workers : PullUpdate(w)
    \/ \E w \in Workers : Runner(w)
    \/ \E w \in Workers : Settle(w)
    \/ \E w \in Workers : Supervise(w)
    \/ \E w \in Workers : DeserializeFails(w)
    \/ \E w \in Workers : RunnerPanics(w)
    \/ \E w \in Workers : RunnerHangs(w)

HazardSpec == Init /\ [][HazardNext]_vars

\* The steps of a worker that the runtime takes when they are possible; a
\* runner is not bound to panic or to hang.
HazardFairSpec ==
    /\ HazardSpec
    /\ \A w \in Workers :
          /\ WF_vars(PullSelect(w))
          /\ WF_vars(PullUpdate(w))
          /\ WF_vars(Settle(w))
          /\ WF_vars(Supervise(w))
          /\ WF_vars(Runner(w) \/ RunnerHangs(w) \/ RunnerPanics(w) \/ DeserializeFails(w))

\* ------------------------------------------- shutdown of the application
\* The pool's two workers and an application that decides to shut down.

\* The application signals shutdown.  start takes no signal and run_tasks
\* reads none: the signal changes nothing but the fact that it was given.
SignalShutdown ==
    /\ ~shutdown
    /\ shutdown' = TRUE
    /\ UNCHANGED <<tasks, nextId, now, retention_mode, pc, sel, stale, result, faults, attempts, settles, failures, hashes, calls, call>>

\* start spawns every supervisor with tokio::spawn and drops the
\* JoinHandle, and returns at once: the tasks are detached.  When the
\* application ends after its shutdown, the runtime drops every task at the
\* await it is suspended in; an open transaction is rolled back and a store
\* call not yet issued is not made.
RuntimeShutdown ==
    /\ shutdown
    /\ \E w \in DOMAIN pc : pc[w] # "dropped"
    /\ pc' = [w \in DOMAIN pc |-> "dropped"]
    /\ UNCHANGED <<tasks, nextId, now, retention_mode, shutdown, sel, stale, result, faults, attempts, settles, failures, hashes, calls, call>>

ShutdownNext ==
    \/ Tick
    \/ Enqueue
    \/ \E w \in Workers : PullSelect(w)
    \/ \E w \in Workers : PullUpdate(w)
    \/ \E w \in Workers : Runner(w)
    \/ \E w \in Workers : Settle(w)
    \/ \E w \in Workers : Supervise(w)
    \/ SignalShutdown
    \/ RuntimeShutdown

ShutdownSpec == Init /\ [][ShutdownNext]_vars

\* ------------------------------------------- a worker built by default
\* The builder is given no retention mode: the field takes
\* RetentionMode::default().

\* The default named by the doc comment of RetentionMode.
RetentionMode_default_remove_all == "RemoveAll"

\* impl Default for RetentionMode
RetentionMode_default == "RemoveDone"

DefaultInit == Init /\ retention_mode = RetentionMode_default

DefaultSpec == DefaultInit /\ [][Next]_vars

\* ------------------------------------------- next_attempt called directly
\* The inputs of BackoffMode::next_attempt are drawn at the start; the one
\* step applies the function.

Attempts == (0 .. MaxAttempt) \cup {I32Max}

Returned == "ret" \in DOMAIN call

BackoffInit ==
    /\ tasks = << >>
    /\ nextId = 1
    /\ now = 0
    /\ retention_mode \in RetentionModes
    /\ pc = [w \in Workers \cup TypedWorkers |-> "fetch"]
    /\ sel = [w \in Workers \cup TypedWorkers |-> NoTask]
    /\ stale = [w \in Workers \cup TypedWorkers |-> FALSE]
    /\ result = [w \in Workers \cup TypedWorkers |-> "none"]
    /\ faults = 0
    /\ shutdown = FALSE
    /\ attempts = [i \in 1..MaxTasks |-> 0]
    /\ settles = [i \in 1..MaxTasks |-> 0]
    /\ failures = [i \in 1..MaxTasks |-> 0]
    /\ hashes = [i \in 1..MaxTasks |-> NULL]
    /\ calls = 0
    /\ \E mode \in BackoffModes, attempt \in Attempts :
          call = [op |-> "next_attempt", args |-> <<mode, attempt>>]

NextAttempt ==
    /\ call.op = "next_attempt"
    /\ ~Returned
    /\ call' = [op |-> call.op, args |-> call.args,
                ret |-> next_attempt(call.args[1], call.args[2])]
    /\ UNCHANGED <<tasks, nextId, now, retention_mode, shutdown, settles, failures, hashes, pc, sel, stale, result, faults, attempts, calls>>

BackoffNext == NextAttempt

BackoffSpec == BackoffInit /\ [][BackoffNext]_vars

\* ------------------------------------------- Task::state called directly
\* A Task with any combination of done_at, error_info and running_at, and
\* any retries, is drawn at the start; the one step applies the function.

OptionalTimes == {NULL} \cup (0 .. MaxTime)

OptionalErrors == {NoError} \cup Messages

StateInit ==
    /\ tasks = << >>
    /\ nextId = 1
    /\ now = 0
    /\ retention_mode \in RetentionModes
    /\ pc = [w \in Workers \cup TypedWorkers |-> "fetch"]
    /\ sel = [w \in Workers \cup TypedWorkers |-> NoTask]
    /\ stale = [w \in Workers \cup TypedWorkers |-> FALSE]
    /\ result = [w \in Workers \cup TypedWorkers |-> "none"]
    /\ faults = 0
    /\ shutdown = FALSE
    /\ attempts = [i \in 1..MaxTasks |-> 0]
    /\ settles = [i \in 1..MaxTasks |-> 0]
    /\ failures = [i \in 1..MaxTasks |-> 0]
    /\ hashes = [i \in 1..MaxTasks |-> NULL]
    /\ calls = 0
    /\ \E done_at \in OptionalTimes, error_info \in OptionalErrors,
          running_at \in OptionalTimes, retries \in 0 .. MaxTasks :
          call = [op |-> "state", args |-> <<done_at, error_info, running_at, retries>>]

TaskState ==
    /\ call.op = "state"
    /\ ~Returned
    /\ call' = [op |-> call.op, args |-> call.args,
                ret |-> state(call.args[1], call.args[2], call.args[3])]
    /\ UNCHANGED <<tasks, nextId, now, retention_mode, shutdown, settles, failures, hashes, pc, sel, stale, result, faults, attempts, calls>>

StateNext == TaskState

StateSpec == StateInit /\ [][StateNext]_vars

\* ---------------------------------------------------------- properties

Holding(w) == pc[w] \in {"run", "settle"}

Present(i) == i \in DOMAIN tasks

\* C1: at every instant at most one worker holds the claim on a job id: no
\* two workers are executing or settling an attempt of the same record.
C1_AtMostOneHolder ==
    \A v, w \in Workers :
        (v # w /\ Holding(v) /\ Holding(w)) => sel[v].id # sel[w].id

\* Two workers have read the same pending row and one of them holds it.
C1_Witness ==
    \E v, w \in Workers :
        v # w /\ Holding(v) /\ pc[w] = "selected" /\ sel[v].id = sel[w].id

Settled(i) == ~Present(i) \/ Terminal(tasks[i])

AllExited == \A w \in Workers : pc[w] = "exited"

\* C2: under fair scheduling every enqueued job eventually is Done, Failed
\* or removed, and when all workers have left their loops no record is
\* Running.
C2_EveryJobSettles ==
    /\ \A i \in StoreIds : [](Present(i) => <>Settled(i))
    /\ [](AllExited => \A i \in DOMAIN tasks : tasks[i].state # "running")

\* C3: a Done or Failed record is terminal: no store call changes any of
\* its fields; it can only be deleted.
C3_TerminalIsFinal ==
    [][\A i \in DOMAIN tasks :
          Terminal(tasks[i]) => (i \notin DOMAIN tasks' \/ tasks'[i] = tasks[i])]_vars

\* C4: every Ready or Running record has retries <= max_retries.
C4_RetriesWithinMax ==
    \A i \in DOMAIN tasks :
        ~Terminal(tasks[i]) => tasks[i].retry_count <= max_retries(tasks[i].name)

\* A record is Ready again after its last permitted retry was scheduled.
C4_Witness ==
    \E i \in DOMAIN tasks :
        /\ tasks[i].state = "pending"
        /\ tasks[i].retry_count = max_retries(tasks[i].name)
        /\ tasks[i].retry_count > 0

FailedWithRetriesLeft(w) ==
    /\ pc[w] = "settle"
    /\ result[w] # "ok"
    /\ sel[w].retry_count < max_retries(sel[w].name)

FailedWithoutRetriesLeft(w) ==
    /\ pc[w] = "settle"
    /\ result[w] # "ok"
    /\ sel[w].retry_count >= max_retries(sel[w].name)

\* C7: a failed attempt with retries >= max_retries is never retry-scheduled:
\* it is finalized once as Failed under the retention mode; under KeepAll
\* the stored record is Failed with the runner's message.
C7_FinalFailure ==
    [][\A w \in Workers :
          (FailedWithoutRetriesLeft(w) /\ pc'[w] = "fetch") =>
             LET i == sel[w].id IN
             IF retention_mode = "RemoveAll"
             THEN i \notin DOMAIN tasks'
             ELSE /\ i \in DOMAIN tasks'
                  /\ tasks'[i].state = "failed"
                  /\ tasks'[i].error = result[w]
                  /\ tasks'[i].failed_at = now
                  /\ tasks'[i].retry_count = sel[w].retry_count
                  /\ tasks'[i].next_retry_date = tasks[i].next_retry_date]_vars

\* Under KeepAll a job with max_retries = 0 is Failed after its one attempt.
C7_Witness ==
    \E i \in DOMAIN tasks :
        /\ retention_mode = "KeepAll"
        /\ tasks[i].name = "AsyncFailedTask"
        /\ tasks[i].state = "failed"
        /\ tasks[i].error = "number is wrong"
        /\ attempts[i] = 1

\* C8: a job with max_retries = N is attempted at most N + 1 times, retries
\* stepping by one between attempts; when its runner always fails it ends
\* Failed after exactly N + 1 attempts with the last error message.
C8_AttemptsOfFailingJob ==
    \A i \in DOMAIN tasks :
        /\ attempts[i] <= max_retries(tasks[i].name) + 1
        /\ tasks[i].state = "pending" => attempts[i] = tasks[i].retry_count
        /\ tasks[i].state = "running" => attempts[i] = tasks[i].retry_count + 1
        /\ tasks[i].state = "failed" =>
              /\ attempts[i] = max_retries(tasks[i].name) + 1
              /\ tasks[i].retry_count = max_retries(tasks[i].name)
              /\ tasks[i].error = description(tasks[i].name)

\* A job with max_retries = 2 is Failed after three attempts.
C8_Witness ==
    \E i \in DOMAIN tasks :
        /\ tasks[i].name = "AsyncRetryTask"
        /\ tasks[i].state = "failed"
        /\ attempts[i] = 3

\* C9: a job that failed k times and then succeeded is, under KeepAll, Done
\* with retries = k, and carries no error_info (error_info is present only
\* if the last attempt failed).
C9_DoneAfterRetries ==
    \A i \in DOMAIN tasks :
        (retention_mode = "KeepAll" /\ tasks[i].state = "done") =>
            /\ tasks[i].retry_count = attempts[i] - 1
            /\ tasks[i].error = NoError
            /\ tasks[i].last_error = NoError
            /\ state(tasks[i].completed_at, tasks[i].last_error,
                     tasks[i].last_execution_date) = "Done"

\* C10: a record retry-scheduled at time t with backoff b is not returned
\* by pull_next before t + b: a claim happens only at or after the
\* record's scheduled time.
C10_NoClaimBeforeBackoff ==
    [][\A i \in DOMAIN tasks :
          (i \in DOMAIN tasks' /\ tasks[i].state = "pending" /\ tasks'[i].state = "running")
             => tasks[i].next_retry_date <= now]_vars

\* C11: the backoff is a function of (mode, attempt) alone.  NoBackoff gives
\* 0 seconds for every attempt; ExponentialBackoff gives exactly
\* 2^(attempt+1) seconds for every attempt >= 0 for which that fits in 64
\* bits, and u64::MAX otherwise: it never wraps to less than the backoff of
\* an earlier attempt.
C11_Backoff ==
    (call.op = "next_attempt" /\ Returned) =>
        LET mode == call.args[1]
            attempt == call.args[2]
        IN  /\ mode = "NoBackoff" => call.ret = U64Zero
            /\ mode = "ExponentialBackoff" =>
                  /\ attempt < U64Bits - 1 => call.ret = {attempt + 1}
                  /\ attempt < 30 => as_secs(call.ret) = Pow2(attempt + 1)
                  /\ attempt >= U64Bits - 1 => call.ret = U64Max
                  /\ \A a \in Attempts :
                        a <= attempt => U64Leq(next_attempt(mode, a), call.ret)

\* The first attempt whose backoff 2^(attempt+1) does not fit in 64 bits.
C11_Witness ==
    /\ call.op = "next_attempt" /\ Returned
    /\ call.args = <<"ExponentialBackoff", U64Bits - 1>>
    /\ call.ret = U64Max

\* A direct call of the store has just returned.
Called(op) == calls' = calls + 1 /\ call'.op = op

\* pull_next_task has just returned a Task.
PullReturns == Called("pull_next_task") /\ call'.ret # NoRow

\* The contract's conditions for a record to be claimed by a pull with
\* these arguments at the current time.
ClaimEligible(row, queue_name, execution_timeout, task_names) ==
    /\ row.queue_name = queue_name
    /\ row.name \in task_names
    /\ row.next_retry_date = NULL \/ row.next_retry_date <= now
    /\ row.completed_at = NULL /\ row.failed_at = NULL
    /\ \/ row.last_execution_date = NULL
       \/ /\ execution_timeout # NULL
          /\ row.last_execution_date < now - execution_timeout

\* C12: pull_next returns only a record that, at the time of the claim, has
\* the requested queue_name, a task_name among the allowed names,
\* scheduled_at <= now, done_at null, and running_at null or (with an
\* execution_timeout) older than now - execution_timeout: never a terminal
\* record, never one scheduled in the future, never one held by a live claim.
C12_OnlyEligibleReturned ==
    [][PullReturns =>
          ClaimEligible(tasks[call'.ret.id], call'.args[1], call'.args[2], call'.args[3])]_vars

\* C13: the record pull_next returns is the one with the smallest
\* created_at among the claim-eligible records of the requested queue, ties
\* broken by id; no other attribute of a record influences the order.
C13_OldestFirst ==
    [][PullReturns =>
          LET r == tasks[call'.ret.id] IN
          \A j \in DOMAIN tasks :
              ClaimEligible(tasks[j], call'.args[1], call'.args[2], call'.args[3]) =>
                  \/ r.created_at < tasks[j].created_at
                  \/ r.created_at = tasks[j].created_at /\ r.id <= j]_vars

\* C14: selecting a record and marking it claimed are one atomic step: when
\* pull_next returns a record, the stored record is Running with running_at
\* equal to the claim time, and so is the record returned.
C14_ReturnedIsRunning ==
    [][PullReturns =>
          LET i == call'.ret.id IN
          /\ tasks'[i].state = "running"
          /\ tasks'[i].last_execution_date = now
          /\ call'.ret.state = "running"
          /\ call'.ret.last_execution_date = now]_vars

\* C15: a worker bound to one task type never claims or executes a record
\* of another type, and never finalizes, changes or removes one: while it
\* drains its own records, every record of the other type stays in its
\* initial Ready state and is claimable by a worker of that type.
C15_TypeIsolation ==
    /\ [](\A w \in TypedWorkers :
            sel[w] # NoTask => QueueOf(sel[w].name) = WorkerQueue(w))
    /\ [](\A i \in DOMAIN tasks :
            tasks[i].queue_name = "type2" =>
               /\ tasks[i] = [NewRow(i, tasks[i].name, tasks[i].priority)
                                EXCEPT !.created_at = tasks[i].created_at]
               /\ i \in Eligible("type2", NULL, TypedTaskNames))
    /\ [][\A i \in DOMAIN tasks :
            tasks[i].queue_name = "type2" => (i \in DOMAIN tasks' /\ tasks'[i] = tasks[i])]_vars

\* The typed worker has drained the records of its type (one was executed
\* and kept as done) and a record of the other type is in the table.
C15_Witness ==
    /\ \A w \in TypedWorkers : pc[w] = "fetch"
    /\ Eligible("type1", NULL, TypedTaskNames) = {}
    /\ \E i, j \in DOMAIN tasks :
          /\ tasks[i].queue_name = "type1" /\ tasks[i].state = "done" /\ attempts[i] = 1
          /\ tasks[j].queue_name = "type2" /\ j < i

\* A record left Running by a worker that is gone: claimed, not done, and
\* claimed longer ago than the execution timeout.
Orphaned(row, execution_timeout) ==
    /\ row.state = "running"
    /\ row.last_execution_date # NULL
    /\ row.completed_at = NULL /\ row.failed_at = NULL
    /\ row.last_execution_date < now - execution_timeout

\* C16: with an execution_timeout, a record that is Running, not done, whose
\* running_at is older than now - execution_timeout and that no worker is
\* executing is claim-eligible: a pull_next for its queue and task name
\* returns a record, so the orphaned attempt can run again.
C16_OrphanReclaimed ==
    [][(/\ Called("pull_next_task")
        /\ call'.args[2] # NULL
        /\ \E j \in DOMAIN tasks :
              /\ Orphaned(tasks[j], call'.args[2])
              /\ ClaimEligible(tasks[j], call'.args[1], call'.args[2], call'.args[3]))
          => call'.ret # NoRow]_vars

\* The record carries no error_info and no done_at.
Clean(row) ==
    /\ row.error = NoError /\ row.last_error = NoError
    /\ row.completed_at = NULL /\ row.failed_at = NULL

C18_DoneIsIdempotent ==
    [][(/\ Called("set_task_state")
        /\ call'.args[2] = "Done"
        /\ call'.args[1] \in DOMAIN tasks
        /\ tasks[call'.args[1]].state = "done"
        /\ tasks[call'.args[1]].completed_at # NULL)
          => tasks' = tasks]_vars

\* C19: schedule_task_retry(id, backoff, msg) increments retries by exactly
\* one, sets scheduled_at = now + backoff, clears running_at, records
\* error_info = msg and returns the updated record; afterwards the record's
\* derived state is Ready.
C19_ScheduleTaskRetry ==
    [][(Called("schedule_task_retry") /\ call'.args[1] \in DOMAIN tasks) =>
          LET id == call'.args[1]
              backoff == call'.args[2]
              msg == call'.args[3]
          IN  /\ id \in DOMAIN tasks'
              /\ tasks'[id].retry_count = tasks[id].retry_count + 1
              /\ tasks'[id].next_retry_date = now + as_secs(backoff)
              /\ tasks'[id].last_execution_date = NULL
              /\ tasks'[id].last_error = msg
              /\ call'.ret = tasks'[id]
              /\ tasks'[id].state = "pending"
              /\ (tasks[id].completed_at = NULL /\ tasks[id].failed_at = NULL) =>
                    state(tasks'[id].completed_at, tasks'[id].last_error,
                          tasks'[id].last_execution_date) = "Ready"]_vars

\* C20: enqueue inserts exactly one new record: Ready, retries = 0,
\* running_at, done_at and error_info null, scheduled_at = created_at = now,
\* carrying the task's name, queue and payload; it changes no existing
\* record.
C20_Enqueue ==
    [][Called("enqueue") =>
          \E i \in DOMAIN tasks' :
              /\ DOMAIN tasks' \ DOMAIN tasks = {i}
              /\ \A j \in DOMAIN tasks : tasks'[j] = tasks[j]
              /\ tasks'[i].state = "pending"
              /\ tasks'[i].retry_count = 0
              /\ tasks'[i].last_execution_date = NULL
              /\ tasks'[i].completed_at = NULL /\ tasks'[i].failed_at = NULL
              /\ tasks'[i].error = NoError /\ tasks'[i].last_error = NoError
              /\ tasks'[i].created_at = now
              /\ tasks'[i].next_retry_date = now
              /\ tasks'[i].name = call'.args[1]
              /\ tasks'[i].queue_name = QueueOf(call'.args[1])
              /\ tasks'[i].payload = call'.args[2]]_vars

\* C21: enqueue of a task carrying a uniq_hash fails, inserting nothing,
\* whenever a non-terminal record of the same task_name and uniq_hash
\* exists: in every reachable state at most one non-terminal record exists
\* per (task_name, uniq_hash).
C21_UniqueLiveRecord ==
    \A i, j \in DOMAIN tasks :
        (/\ hashes[i] # NULL
         /\ hashes[i] = hashes[j]
         /\ tasks[i].name = tasks[j].name
         /\ ~Terminal(tasks[i]) /\ ~Terminal(tasks[j])) => i = j

\* Worker w settles the attempt it holds and the store call returns Ok.
Settles(w) == pc[w] = "settle" /\ pc'[w] = "fetch"

\* C22: under KeepAll the worker never deletes a record: after a successful
\* attempt the record is stored with state Done, after a final failure it
\* is stored with state Failed and the failure message.
C22_KeepAll ==
    [][retention_mode = "KeepAll" =>
          /\ DOMAIN tasks \subseteq DOMAIN tasks'
          /\ \A w \in Workers : Settles(w) =>
                LET i == sel[w].id IN
                /\ result[w] = "ok" => tasks'[i].state = "done"
                /\ FailedWithoutRetriesLeft(w) =>
                      /\ tasks'[i].state = "failed"
                      /\ tasks'[i].error = result[w]]_vars

\* Under KeepAll one record is kept as Done and another as Failed.
C22_Witness ==
    /\ retention_mode = "KeepAll"
    /\ \E i, j \in DOMAIN tasks :
          /\ tasks[i].state = "done" /\ attempts[i] >= 1
          /\ tasks[j].state = "failed" /\ tasks[j].error = description(tasks[j].name)

\* C23: under RemoveAll the record is deleted at finalize whatever the
\* outcome: after a successful attempt and after a failed attempt with the
\* retries used up the record is gone; a failed attempt that is
\* retry-scheduled does not delete it.
C23_RemoveAll ==
    [][retention_mode = "RemoveAll" =>
          \A w \in Workers : Settles(w) =>
              LET i == sel[w].id IN
              /\ result[w] = "ok" => i \notin DOMAIN tasks'
              /\ FailedWithoutRetriesLeft(w) => i \notin DOMAIN tasks'
              /\ FailedWithRetriesLeft(w) =>
                    /\ i \in DOMAIN tasks'
                    /\ tasks'[i].state = "pending"]_vars

\* Under RemoveAll a record is gone after the attempt made with every retry
\* used up, while another has been retry-scheduled and is kept.
C23_Witness ==
    /\ retention_mode = "RemoveAll"
    /\ \E i \in 1..MaxTasks : i < nextId /\ i \notin DOMAIN tasks /\ attempts[i] = 3
    /\ \E j \in DOMAIN tasks : tasks[j].state = "pending" /\ tasks[j].retry_count > 0

\* C24: under RemoveDone a record is deleted if and only if its attempt
\* succeeded; on a final failure it is kept and stored as Failed with the
\* failure message.
C24_RemoveDone ==
    [][retention_mode = "RemoveDone" =>
          /\ \A w \in Workers : Settles(w) =>
                LET i == sel[w].id IN
                /\ i \notin DOMAIN tasks' <=> result[w] = "ok"
                /\ FailedWithoutRetriesLeft(w) =>
                      /\ tasks'[i].state = "failed"
                      /\ tasks'[i].error = result[w]
          /\ \A i \in DOMAIN tasks \ DOMAIN tasks' :
                \E w \in Workers : Settles(w) /\ sel[w].id = i /\ result[w] = "ok"]_vars

\* Under RemoveDone one record is gone after its attempt and another is
\* kept as Failed.
C24_Witness ==
    /\ retention_mode = "RemoveDone"
    /\ \E i \in 1..MaxTasks : i < nextId /\ i \notin DOMAIN tasks /\ attempts[i] >= 1
    /\ \E j \in DOMAIN tasks :
          tasks[j].state = "failed" /\ tasks[j].error = description(tasks[j].name)

C26_PullErrorKeepsWorker ==
    [][/\ \A w \in DOMAIN pc :
             pc[w] \in {"fetch", "selected"} => pc'[w] \in {"fetch", "selected", "run"}
       /\ (faults' # faults /\ \A w \in DOMAIN pc : pc[w] # "settle") =>
             (pc' = pc /\ tasks' = tasks)]_vars

\* The lone typed worker holds the first attempt ever started, after a
\* store error: the error was returned by one of its pulls.
C26_Witness ==
    /\ faults = 1
    /\ \E w \in TypedWorkers : pc[w] = "run"
    /\ \E i \in DOMAIN tasks :
          /\ attempts[i] = 1
          /\ \A j \in 1..MaxTasks : j # i => attempts[j] = 0

\* C27: a store error raised when a worker settles an attempt
\* (set_task_state, remove_task or schedule_task_retry failing) never
\* leaves the worker loop: the worker goes on with its next iteration.
C27_SettleErrorKeepsWorker ==
    [][\A w \in DOMAIN pc :
          pc[w] = "settle" => pc'[w] \in {"settle", "fetch"}]_vars

\* C28: when a claimed record does not deserialize (no executor for its
\* task_name, or a payload that cannot be read), the attempt is a terminal
\* failure: the record is finalized as Failed under the retention mode
\* without being retry-scheduled, retries unchanged, and the worker goes on
\* to its next iteration.
C28_DeserializationFailure ==
    [][\A w \in Workers : DeserializeFails(w) =>
          LET i == sel[w].id IN
          /\ pc'[w] = "fetch"
          /\ IF retention_mode = "RemoveAll"
             THEN i \notin DOMAIN tasks'
             ELSE /\ i \in DOMAIN tasks'
                  /\ tasks'[i].state = "failed"
                  /\ tasks'[i].retry_count = tasks[i].retry_count]_vars

\* An attempt is in progress on worker w: the record is fetched and the
\* worker has not yet got an outcome to settle.
InAttempt(w) == pc[w] \in {"run", "awaiting runner"}

\* C29: every attempt is bounded by the record's timeout: a runner that has
\* not completed when the timer fires is dropped and the attempt goes on as
\* a failure to finalize, so no runner keeps a worker in an attempt forever.
C29_AttemptEnds ==
    \A w \in Workers : InAttempt(w) ~> ~InAttempt(w)

\* C30: a runner that panics is isolated: the panic becomes a failure of
\* the attempt that the worker settles like any other (finalize or retry),
\* and the worker loop keeps running.
C30_RunnerPanicIsolated ==
    [][\A w \in Workers : RunnerPanics(w) =>
          /\ pc'[w] = "settle"
          /\ result'[w] \in Messages]_vars

\* C31: once shutdown has been signalled, a worker at an iteration boundary
\* leaves its loop: it starts no new claim (pull_next).
C31_NoClaimAfterShutdown ==
    [][\A w \in Workers :
          (shutdown /\ pc[w] = "fetch") => pc'[w] # "selected"]_vars

\* C32: graceful drain: an attempt in progress when shutdown is signalled is
\* not aborted; the worker stays in it until the runner has returned and
\* then settles it.
C32_AttemptNotAborted ==
    [][\A w \in Workers :
          (shutdown /\ pc[w] = "run") => pc'[w] \in {"run", "settle"}]_vars

\* The loop of worker w has ended otherwise than by a shutdown: run_tasks
\* returned an error or panicked.
LoopTerminated(w) ==
    pc[w] \in {"exited", "panicked in unwrap", "panicked in runner"}

\* C33: whenever the loop of a worker terminates abnormally the supervisor
\* restarts it with the same parameters: the slot is eventually running a
\* worker loop again.
C33_SupervisorRestarts ==
    \A w \in Workers : LoopTerminated(w) ~> (pc[w] = "fetch")

\* The workers that hold a claim on record i.
Holders(i) == {w \in Workers : Holding(w) /\ sel[w].id = i}

\* C34: a worker restart never duplicates a finalize: every attempt (one
\* claim of one record) gets at most one settling store update, so the
\* updates applied to a record never outnumber its attempts that are over.
C34_NoDuplicateFinalize ==
    \A i \in StoreIds : settles[i] + Cardinality(Holders(i)) <= attempts[i]

\* A worker lost its claim to a store error before the settling update, its
\* loop was restarted, and the record was left with an attempt never settled.
C34_Witness ==
    \E i \in StoreIds :
        /\ attempts[i] = 1 /\ settles[i] = 0 /\ Holders(i) = {}
        /\ \A w \in Workers : pc[w] = "fetch"

\* C35: the derived state is a total function of the presence of done_at,
\* error_info and running_at alone: done_at and error_info set give Failed,
\* done_at set without error_info gives Done, done_at absent with
\* running_at set gives Running, and anything else gives Ready.
C35_DerivedState ==
    (call.op = "state" /\ Returned) =>
        LET done == call.args[1] # NULL
            err == call.args[2] # NoError
            running == call.args[3] # NULL
        IN  /\ call.ret \in TaskStates
            /\ (done /\ err) => call.ret = "Failed"
            /\ (done /\ ~err) => call.ret = "Done"
            /\ (~done /\ running) => call.ret = "Running"
            /\ (~done /\ ~running) => call.ret = "Ready"

\* The state of a record with done_at, error_info and running_at all set
\* has been derived.
C35_Witness ==
    /\ call.op = "state" /\ Returned
    /\ call.args[1] # NULL /\ call.args[2] # NoError /\ call.args[3] # NULL
    /\ call.ret = "Failed"

\* C36 as stated: in every reachable state the retries of a record equal
\* the number of failed attempts completed on it so far.
C36_RetriesCountFailures ==
    \A i \in DOMAIN tasks : tasks[i].retry_count = failures[i]

\* C36, amended: the retries of a record equal the number of its failed
\* attempts that were retry-scheduled (the final failed attempt, which is
\* finalized as Failed, is not counted); retries never decrease and change
\* only through schedule_task_retry, by exactly +1 per call.
C36_RetriesCountRetries ==
    [][\A i \in DOMAIN tasks' :
          /\ tasks'[i].retry_count =
                failures'[i] - (IF tasks'[i].state = "failed" THEN 1 ELSE 0)
          /\ (i \in DOMAIN tasks /\ tasks'[i].retry_count # tasks[i].retry_count) =>
                /\ tasks'[i].retry_count = tasks[i].retry_count + 1
                /\ \E w \in Workers :
                      /\ Settles(w) /\ sel[w].id = i
                      /\ ShouldRetry(sel[w], result[w])
                      /\ tasks' = schedule_task_retry(tasks, i,
                            next_attempt(backoff_mode(sel[w].name), sel[w].retry_count),
                            result[w])]_vars

\* A record failed three times: it was retry-scheduled twice and then
\* finalized as Failed, with retries 2.
C36_Witness ==
    \E i \in DOMAIN tasks :
        /\ tasks[i].state = "failed"
        /\ failures[i] = 3
        /\ tasks[i].retry_count = 2

\* C37: in every reachable state every record has a scheduled time that is
\* not before its creation time, also after any number of
\* retry-schedulings.
C37_ScheduledNotBeforeCreated ==
    \A i \in DOMAIN tasks :
        /\ tasks[i].next_retry_date # NULL
        /\ tasks[i].next_retry_date >= tasks[i].created_at

\* The tables one settling store call on the record of task can leave:
\* set Done, set Failed, remove, or retry-schedule.
SettlingEffects(t, task) ==
    {set_task_state(t, task.id, "Done", NoError), remove_task(t, task.id)}
    \cup {set_task_state(t, task.id, "Failed", m) : m \in Messages}
    \cup {schedule_task_retry(t, task.id, next_attempt(mode, task.retry_count), m) :
             mode \in BackoffModes, m \in Messages}

\* C38: a worker holds one claimed record at a time and settles it before
\* it claims again: from the claim on, its loop makes no pull until exactly
\* one settling store call (set Done, set Failed, remove or retry-schedule)
\* has been applied to the record it holds.
C38_SettleBeforeNextClaim ==
    [][\A w \in Workers :
          /\ pc[w] = "run" => pc'[w] \in {"run", "settle"}
          /\ (pc[w] = "settle" /\ pc'[w] = "fetch") =>
                /\ tasks' # tasks
                /\ tasks' \in SettlingEffects(tasks, sel[w])
          /\ (pc[w] = "settle" /\ pc'[w] \notin {"settle", "fetch"}) =>
                pc'[w] = "exited"]_vars

\* No worker loop has ended and one record has been claimed three times by
\* the two workers: a worker has claimed, settled and claimed again.
C38_Witness ==
    /\ faults = 0
    /\ \E i \in StoreIds : attempts[i] = 3 /\ settles[i] >= 2

\* C39: set_task_state, schedule_task_retry and remove_task applied to an id
\* leave every record with another id unchanged and add no record;
\* remove_task(id) returns 1 and deletes the record when it exists, and
\* returns 0 and changes nothing when it does not.
C39_OtherRecordsUnchanged ==
    [][(Called("set_task_state") \/ Called("schedule_task_retry") \/ Called("remove_task")) =>
          LET id == call'.args[1] IN
          /\ DOMAIN tasks' \subseteq DOMAIN tasks
          /\ \A j \in DOMAIN tasks \ {id} : j \in DOMAIN tasks' /\ tasks'[j] = tasks[j]
          /\ Called("remove_task") =>
                IF id \in DOMAIN tasks
                THEN call'.ret = 1 /\ id \notin DOMAIN tasks'
                ELSE call'.ret = 0 /\ tasks' = tasks]_vars

\* remove_task has deleted one of two records and returned 1.
C39_Witness ==
    /\ call.op = "remove_task"
    /\ call.ret = 1
    /\ call.args[1] \notin DOMAIN tasks
    /\ DOMAIN tasks # {}

\* C40: a pull_next call that returns None or fails with a store error
\* leaves every record unchanged: a record becomes Running, or gets a new
\* claim timestamp, only in the step that returns it to the caller.
C40_FailedPullChangesNothing ==
    [][/\ \A w \in Workers :
             /\ (pc[w] = "selected" /\ pc'[w] = "fetch") => tasks' = tasks
             /\ (pc[w] = "fetch" /\ pc' = pc /\ faults' # faults) => tasks' = tasks
       /\ \A i \in DOMAIN tasks \cap DOMAIN tasks' :
             (\/ tasks'[i].state = "running" /\ tasks[i].state # "running"
              \/ tasks'[i].last_execution_date # tasks[i].last_execution_date) =>
                \E w \in Workers :
                    pc[w] = "selected" /\ pc'[w] = "run" /\ sel'[w].id = i]_vars

\* A pull has failed with a store error, and the record in the table is
\* pending and has never been claimed.
C40_Witness ==
    /\ faults = 1
    /\ \A w \in Workers : pc[w] = "fetch"
    /\ \A i \in StoreIds : attempts[i] = 0
    /\ \E i \in DOMAIN tasks :
          tasks[i].state = "pending" /\ tasks[i].last_execution_date = NULL

====
